---- MODULE Spec2Model ----
(***************************************************************************)
(* A model of the SentryOS desktop shell: the window manager               *)
(* (components/desktop/WindowManager.tsx), the folder view's click         *)
(* classification (components/desktop/apps/FolderView.tsx and its          *)
(* uninstrumented variant), the chat relay endpoint (app/api/chat) and the  *)
(* metrics shim (lib/metrics.ts).                                          *)
(*                                                                         *)
(* Each component has its own specification (WMSpec, FolderSpec, ChatSpec, *)
(* MetricsSpec) over the shared variables; a specification leaves the      *)
(* other components parked in their initial state.                         *)
(***************************************************************************)
EXTENDS Integers, Sequences, FiniteSets, TLC

VARIABLES
    windows,         \* WindowManagerProvider: useState<WindowState[]>([])
    topZIndex,       \* WindowManagerProvider: useState(100)
    nativeMetrics,   \* the functions Sentry.metrics provides in this build
    fvInstrumented,  \* TRUE: apps/FolderView.tsx, FALSE: its uninstrumented variant
    fvStatus,        \* "unmounted", "mounted" or "crashed" (the mount effect threw)
    selectedId,      \* FolderView: useState<string | null>(null)
    clickTimeoutRef, \* FolderView: useRef<NodeJS.Timeout | null>(null); 0 is null
    clickCountRef,   \* FolderView: useRef(0)
    lastClickedIdRef,\* FolderView: useRef<string | null>(null)
    timers,          \* the host's pending setTimeout callbacks
    nextHandle,      \* the next handle setTimeout returns
    now,             \* the host's clock, in the time unit of setTimeout
    events,          \* what the folder view has seen and done, in order
    chatPc,          \* POST: "idle", "responded", "streaming" or "closed"
    request,         \* the body POST received
    response,        \* the Response POST returned
    queries,         \* the prompts of the query() calls made
    upstream,        \* the messages the upstream query has yielded
    frames,          \* the chunks handed to controller.enqueue, in order
    closes,          \* the number of controller.close() calls
    streamEnd,       \* how the for-await loop ended: "none", "ended", "threw"
    nativeCalls,     \* the calls lib/metrics.ts made to Sentry.metrics.*, in order
    breadcrumbs      \* the breadcrumbs lib/metrics.ts gave to Sentry.addBreadcrumb

wmVars == <<windows, topZIndex>>

fvVars == <<nativeMetrics, fvInstrumented, fvStatus, selectedId, clickTimeoutRef,
            clickCountRef, lastClickedIdRef, timers, nextHandle, now, events>>

chatVars == <<chatPc, request, response, queries, upstream, frames, closes, streamEnd>>

shimVars == <<nativeCalls, breadcrumbs>>

\* What each component's actions leave alone.  The sinks of the metrics shim
\* are followed in MetricsSpec only: no state of the other components depends
\* on what they send.
notWM == <<fvVars, chatVars, shimVars>>
notFolder == <<wmVars, chatVars, shimVars>>
notChat == <<wmVars, fvVars, shimVars>>
notShim == <<wmVars, fvVars, chatVars>>

vars == <<windows, topZIndex, nativeMetrics, fvInstrumented, fvStatus, selectedId,
          clickTimeoutRef, clickCountRef, lastClickedIdRef, timers, nextHandle,
          now, events, chatPc, request, response, queries, upstream, frames,
          closes, streamEnd, nativeCalls, breadcrumbs>>

(***************************************************************************)
(* Window manager                                                          *)
(***************************************************************************)

\* Number of z-order allocations (open / restore / focus calls) explored.
MaxZ == 4

\* useState(100): the initial value of the stacking counter.
InitialZIndex == 100

\* Window ids the callers use.
Ids == {"w1", "w2"}

\* The descriptors handed to openWindow (WindowState without zIndex and
\* isFocused).  Two descriptors per id differ in title and content, so that a
\* re-open with another descriptor is distinguishable from the stored record;
\* isMinimized is taken from both booleans.
Variants == {"a", "b"}

Descriptor(id, v, min) ==
    [id |-> id, title |-> v, content |-> v,
     x |-> 0, y |-> 0, width |-> 3, height |-> 3,
     minWidth |-> 2, minHeight |-> 2,
     isMinimized |-> min, isMaximized |-> FALSE]

Descriptors == {Descriptor(id, v, min) : id \in Ids, v \in Variants, min \in BOOLEAN}

\* Arguments of updateWindowPosition and updateWindowSize; <<1, 1>> is a size
\* below the descriptor's minWidth / minHeight.
Positions == {<<5, 7>>}
Sizes == {<<1, 1>>}

\* prev.find(w => w.id === id) is defined
Exists(ws, id) == \E i \in DOMAIN ws : ws[i].id = id

\* A filter that drops the record with the id and every record after it.
FilterOut_DropsTail(ws, id) ==
    IF Exists(ws, id)
    THEN SubSeq(ws, 1, (CHOOSE i \in DOMAIN ws : ws[i].id = id) - 1)
    ELSE ws

\* prev.filter(w => w.id !== id)
RECURSIVE FilterOut(_, _)
FilterOut(ws, id) ==
    IF ws = <<>> THEN <<>>
    ELSE IF Head(ws).id = id THEN FilterOut(Tail(ws), id)
         ELSE <<Head(ws)>> \o FilterOut(Tail(ws), id)

\* prev.find(w => w.id === id), for an id that Exists
Find(ws, id) == ws[CHOOSE i \in DOMAIN ws : ws[i].id = id /\ \A j \in 1..(i - 1) : ws[j].id # id]

\* NewRecord that leaves the new window without the focus.
NewRecord_NotFocused(window, newZ) ==
    [id |-> window.id, title |-> window.title, content |-> window.content,
     x |-> window.x, y |-> window.y,
     width |-> window.width, height |-> window.height,
     minWidth |-> window.minWidth, minHeight |-> window.minHeight,
     isMinimized |-> window.isMinimized, isMaximized |-> window.isMaximized,
     zIndex |-> newZ, isFocused |-> FALSE]

\* NewRecord that always opens the window unminimized, whatever the descriptor
\* says.
NewRecord_Unminimized(window, newZ) ==
    [id |-> window.id, title |-> window.title, content |-> window.content,
     x |-> window.x, y |-> window.y,
     width |-> window.width, height |-> window.height,
     minWidth |-> window.minWidth, minHeight |-> window.minHeight,
     isMinimized |-> FALSE, isMaximized |-> window.isMaximized,
     zIndex |-> newZ, isFocused |-> TRUE]

\* { ...window, zIndex: newZ, isFocused: true }
NewRecord(window, newZ) ==
    [id |-> window.id, title |-> window.title, content |-> window.content,
     x |-> window.x, y |-> window.y,
     width |-> window.width, height |-> window.height,
     minWidth |-> window.minWidth, minHeight |-> window.minHeight,
     isMinimized |-> window.isMinimized, isMaximized |-> window.isMaximized,
     zIndex |-> newZ, isFocused |-> TRUE]

\* Unfocused that leaves the focus flags as they are.
Unfocused_Keeps(prev) == prev

\* prev.map(w => ({ ...w, isFocused: false }))
Unfocused(prev) == [i \in DOMAIN prev |-> [prev[i] EXCEPT !.isFocused = FALSE]]

\* OpenUpdate without the lookup of an existing record: every call appends.
OpenUpdate_AlwaysAppends(prev, window, newZ) ==
    Append(Unfocused(prev), NewRecord(window, newZ))

\* OpenUpdate whose re-open branch replaces the stored record by the
\* descriptor's values.
OpenUpdate_TakesDescriptor(prev, window, newZ) ==
    IF Exists(prev, window.id)
    THEN [i \in DOMAIN prev |->
            IF prev[i].id = window.id
            THEN [NewRecord(window, newZ) EXCEPT !.isMinimized = FALSE]
            ELSE [prev[i] EXCEPT !.isFocused = FALSE]]
    ELSE Append(Unfocused(prev), NewRecord(window, newZ))

\* OpenUpdate with the new-window branch forgetting to clear the focus of the
\* records already in the list.
OpenUpdate_KeepsFocus(prev, window, newZ) ==
    IF Exists(prev, window.id)
    THEN [i \in DOMAIN prev |->
            IF prev[i].id = window.id
            THEN [prev[i] EXCEPT !.isMinimized = FALSE, !.isFocused = TRUE, !.zIndex = newZ]
            ELSE [prev[i] EXCEPT !.isFocused = FALSE]]
    ELSE Append(prev, NewRecord(window, newZ))

\* The setWindows updater of openWindow (lines 55-88).
OpenUpdate(prev, window, newZ) ==
    IF Exists(prev, window.id)
    THEN IF Find(prev, window.id).isMinimized
         THEN [i \in DOMAIN prev |->
                IF prev[i].id = window.id
                THEN [prev[i] EXCEPT !.isMinimized = FALSE, !.isFocused = TRUE,
                                     !.zIndex = newZ]
                ELSE [prev[i] EXCEPT !.isFocused = FALSE]]
         ELSE [i \in DOMAIN prev |->
                IF prev[i].id = window.id
                THEN [prev[i] EXCEPT !.isFocused = TRUE, !.zIndex = newZ]
                ELSE [prev[i] EXCEPT !.isFocused = FALSE]]
    ELSE Append(Unfocused(prev), NewRecord(window, newZ))

\* MinimizeUpdate that sets isMinimized and leaves the focus where it was.
MinimizeUpdate_KeepsFocus(prev, id) ==
    [i \in DOMAIN prev |->
        IF prev[i].id = id THEN [prev[i] EXCEPT !.isMinimized = TRUE] ELSE prev[i]]

\* The setWindows updater of minimizeWindow (lines 118-120).
MinimizeUpdate(prev, id) ==
    [i \in DOMAIN prev |->
        IF prev[i].id = id
        THEN [prev[i] EXCEPT !.isMinimized = TRUE, !.isFocused = FALSE]
        ELSE prev[i]]

\* MaximizeUpdate that sets the flag instead of toggling it.
MaximizeUpdate_Sets(prev, id) ==
    [i \in DOMAIN prev |->
        IF prev[i].id = id THEN [prev[i] EXCEPT !.isMaximized = TRUE] ELSE prev[i]]

\* The setWindows updater of maximizeWindow (lines 135-137).
MaximizeUpdate(prev, id) ==
    [i \in DOMAIN prev |->
        IF prev[i].id = id
        THEN [prev[i] EXCEPT !.isMaximized = ~prev[i].isMaximized]
        ELSE prev[i]]

\* RestoreUpdate that leaves the focus flags of the other records alone.
RestoreUpdate_NoUnfocus(prev, id, newZ) ==
    [i \in DOMAIN prev |->
        IF prev[i].id = id
        THEN [prev[i] EXCEPT !.isMinimized = FALSE, !.isFocused = TRUE,
                             !.zIndex = newZ]
        ELSE prev[i]]

\* The setWindows updater of restoreWindow (lines 143-147).
RestoreUpdate(prev, id, newZ) ==
    [i \in DOMAIN prev |->
        IF prev[i].id = id
        THEN [prev[i] EXCEPT !.isMinimized = FALSE, !.isFocused = TRUE, !.zIndex = newZ]
        ELSE [prev[i] EXCEPT !.isFocused = FALSE]]

\* FocusUpdate that focuses without assigning the new z-order value.
FocusUpdate_NoRaise(prev, id, newZ) ==
    [i \in DOMAIN prev |->
        IF prev[i].id = id
        THEN [prev[i] EXCEPT !.isFocused = TRUE]
        ELSE [prev[i] EXCEPT !.isFocused = FALSE]]

\* The setWindows updater of focusWindow (lines 155-159).
FocusUpdate(prev, id, newZ) ==
    [i \in DOMAIN prev |->
        IF prev[i].id = id
        THEN [prev[i] EXCEPT !.isFocused = TRUE, !.zIndex = newZ]
        ELSE [prev[i] EXCEPT !.isFocused = FALSE]]

\* The setWindows updater of updateWindowPosition (lines 171-173).
PositionUpdate(prev, id, x, y) ==
    [i \in DOMAIN prev |->
        IF prev[i].id = id THEN [prev[i] EXCEPT !.x = x, !.y = y] ELSE prev[i]]

\* SizeUpdate that clamps the size to the record's minimum.
SizeUpdate_Clamped(prev, id, width, height) ==
    [i \in DOMAIN prev |->
        IF prev[i].id = id
        THEN [prev[i] EXCEPT
                !.width = IF width < prev[i].minWidth THEN prev[i].minWidth ELSE width,
                !.height = IF height < prev[i].minHeight THEN prev[i].minHeight ELSE height]
        ELSE prev[i]]

\* The setWindows updater of updateWindowSize (lines 186-188).
SizeUpdate(prev, id, width, height) ==
    [i \in DOMAIN prev |->
        IF prev[i].id = id
        THEN [prev[i] EXCEPT !.width = width, !.height = height]
        ELSE prev[i]]

WMInit ==
    /\ windows = <<>>
    /\ topZIndex = InitialZIndex

\* The explored runs allocate at most MaxZ z-order values.
CanAllocate == topZIndex < InitialZIndex + MaxZ

openWindow(window) ==
    /\ CanAllocate
    /\ LET newZ == topZIndex + 1
       IN  /\ windows' = OpenUpdate(windows, window, newZ)
           /\ topZIndex' = newZ
    /\ UNCHANGED notWM

closeWindow(id) ==
    /\ windows' = FilterOut(windows, id)
    /\ UNCHANGED <<topZIndex, notWM>>

minimizeWindow(id) ==
    /\ windows' = MinimizeUpdate(windows, id)
    /\ UNCHANGED <<topZIndex, notWM>>

\* restoreWindow that hands out the next value without storing it in the
\* counter.
restoreWindow_KeepsCounter(id) ==
    /\ CanAllocate
    /\ LET newZ == topZIndex + 1
       IN  windows' = RestoreUpdate(windows, id, newZ)
    /\ UNCHANGED <<topZIndex, notWM>>

maximizeWindow(id) ==
    /\ windows' = MaximizeUpdate(windows, id)
    /\ UNCHANGED <<topZIndex, notWM>>

restoreWindow(id) ==
    /\ CanAllocate
    /\ LET newZ == topZIndex + 1
       IN  /\ windows' = RestoreUpdate(windows, id, newZ)
           /\ topZIndex' = newZ
    /\ UNCHANGED notWM

focusWindow(id) ==
    /\ CanAllocate
    /\ LET newZ == topZIndex + 1
       IN  /\ windows' = FocusUpdate(windows, id, newZ)
           /\ topZIndex' = newZ
    /\ UNCHANGED notWM

updateWindowPosition(id, x, y) ==
    /\ windows' = PositionUpdate(windows, id, x, y)
    /\ UNCHANGED <<topZIndex, notWM>>

updateWindowSize(id, width, height) ==
    /\ windows' = SizeUpdate(windows, id, width, height)
    /\ UNCHANGED <<topZIndex, notWM>>

\* Taskbar.handleWindowClick with the restore / focus choice dropped: every
\* click focuses.
handleWindowClick_AlwaysFocus(id, isMinimized) == focusWindow(id)

\* Taskbar.handleWindowClick (Taskbar.tsx:25-31): restore a minimized window,
\* focus any other.
handleWindowClick(id, isMinimized) ==
    IF isMinimized THEN restoreWindow(id) ELSE focusWindow(id)

Open == \E window \in Descriptors : openWindow(window)
Close == \E id \in Ids : closeWindow(id)
Minimize == \E id \in Ids : minimizeWindow(id)
Maximize == \E id \in Ids : maximizeWindow(id)
Restore == \E id \in Ids : restoreWindow(id)
Focus == \E id \in Ids : focusWindow(id)
Move == \E id \in Ids, p \in Positions : updateWindowPosition(id, p[1], p[2])
Resize == \E id \in Ids, s \in Sizes : updateWindowSize(id, s[1], s[2])
\* One button per record, bound to the record's id and isMinimized as
\* rendered (Taskbar.tsx:54-57).
TaskbarClick ==
    \E i \in DOMAIN windows : handleWindowClick(windows[i].id, windows[i].isMinimized)

WMNext ==
    \/ Open
    \/ Close
    \/ Minimize
    \/ Maximize
    \/ Restore
    \/ Focus
    \/ Move
    \/ Resize
    \/ TaskbarClick

(***************************************************************************)
(* Folder view: double-click detection                                     *)
(***************************************************************************)

\* Number of clicks explored.
MaxClicks == 3

\* setTimeout(..., 250)
ClickDelay == 250

\* The clock advances in steps of half the delay, MaxTicks times at most.
TickStep == ClickDelay \div 2
MaxTicks == 6
MaxTime == MaxTicks * TickStep

\* The items of the folder; every item carries an onOpen callback.
Items == {"A", "B"}

\* null, for selectedId and lastClickedIdRef
NoItem == "none"

\* The three functions the code expects of Sentry.metrics.
MetricShapes == {"increment", "gauge", "distribution"}

Event(kind, item) == [kind |-> kind, item |-> item]

IsClick(e) == e.kind = "click"

ClickCount == Len(SelectSeq(events, IsClick))

\* Sentry.metrics.<shape>(...) called without the shim (FolderView.tsx lines
\* 39, 42, 73 and 92) is a TypeError when the build provides no such function.
DirectMetricThrows(shape) == fvInstrumented /\ shape \notin nativeMetrics

\* clearTimeout(handle): a handle that is not pending clears nothing.
ClearTimeout(ts, handle) == {t \in ts : t.handle # handle}

\* ClearRef that clears nothing.
ClearRef_Never(ts) == ts

\* if (clickTimeoutRef.current) clearTimeout(clickTimeoutRef.current)
ClearRef(ts) == IF clickTimeoutRef # 0 THEN ClearTimeout(ts, clickTimeoutRef) ELSE ts

\* ResetIfDifferent without the reset: the counter keeps counting across items.
ResetIfDifferent_NoReset(item) == [count |-> clickCountRef, timers |-> timers]

\* ResetIfDifferent that resets the counter and leaves the timer of the other
\* item armed.
ResetIfDifferent_KeepsTimer(item) ==
    IF lastClickedIdRef # item
    THEN [count |-> 0, timers |-> timers]
    ELSE [count |-> clickCountRef, timers |-> timers]

\* "Reset if clicking a different item": the counter and the pending timers
\* after the first statement of handleItemClick.
ResetIfDifferent(item) ==
    IF lastClickedIdRef # item
    THEN [count |-> 0, timers |-> ClearRef(timers)]
    ELSE [count |-> clickCountRef, timers |-> timers]

\* clickCountRef.current === 1: arm the single-click timer.
ArmTimer(item, ts) ==
    /\ timers' = ts \cup {[handle |-> nextHandle, item |-> item, due |-> now + ClickDelay]}
    /\ clickTimeoutRef' = nextHandle
    /\ nextHandle' = nextHandle + 1
    /\ clickCountRef' = 1
    /\ events' = Append(events, Event("click", item))
    /\ UNCHANGED selectedId

\* DoubleClick without the clearTimeout: the single-click timer stays armed.
DoubleClick_NoClear(item, ts) ==
    /\ timers' = ts
    /\ clickCountRef' = 0
    /\ selectedId' = item
    /\ events' = events \o <<Event("click", item), Event("open", item)>>
    /\ UNCHANGED <<clickTimeoutRef, nextHandle>>

\* DoubleClick that opens the item without selecting it.
DoubleClick_NoSelect(item, ts) ==
    /\ timers' = ClearRef(ts)
    /\ clickCountRef' = 0
    /\ events' = events \o <<Event("click", item), Event("open", item)>>
    /\ UNCHANGED <<selectedId, clickTimeoutRef, nextHandle>>

\* clickCountRef.current === 2: double click detected.
DoubleClick(item, ts) ==
    /\ timers' = ClearRef(ts)
    /\ clickCountRef' = 0
    /\ IF DirectMetricThrows("increment")
       THEN /\ events' = Append(events, Event("click", item))
            /\ UNCHANGED selectedId
       ELSE /\ selectedId' = item
            /\ events' = events \o <<Event("click", item), Event("open", item)>>
    /\ UNCHANGED <<clickTimeoutRef, nextHandle>>

handleItemClick(item) ==
    /\ fvStatus = "mounted"
    /\ ClickCount < MaxClicks
    /\ LET r == ResetIfDifferent(item)
           count == r.count + 1
       IN  /\ lastClickedIdRef' = item
           /\ IF count = 1 THEN ArmTimer(item, r.timers)
              ELSE IF count = 2 THEN DoubleClick(item, r.timers)
              ELSE /\ timers' = r.timers
                   /\ clickCountRef' = count
                   /\ events' = Append(events, Event("click", item))
                   /\ UNCHANGED <<selectedId, clickTimeoutRef, nextHandle>>
    /\ UNCHANGED <<nativeMetrics, fvInstrumented, fvStatus, now, notFolder>>

\* onTimeout without the trailing clickCountRef.current = 0.
onTimeout_NoReset(t) ==
    /\ t \in timers
    /\ now >= t.due
    /\ timers' = timers \ {t}
    /\ IF clickCountRef = 1
       THEN /\ selectedId' = t.item
            /\ events' = events \o <<Event("fire", t.item), Event("select", t.item)>>
       ELSE /\ events' = Append(events, Event("fire", t.item))
            /\ UNCHANGED selectedId
    /\ UNCHANGED <<nativeMetrics, fvInstrumented, fvStatus, clickTimeoutRef,
                   clickCountRef, lastClickedIdRef, nextHandle, now, notFolder>>

\* The callback handed to setTimeout, run by the host once it is due.
onTimeout(t) ==
    /\ t \in timers
    /\ now >= t.due
    /\ timers' = timers \ {t}
    /\ IF clickCountRef = 1
       THEN IF DirectMetricThrows("increment")
            THEN /\ events' = Append(events, Event("fire", t.item))
                 /\ UNCHANGED <<selectedId, clickCountRef>>
            ELSE /\ selectedId' = t.item
                 /\ clickCountRef' = 0
                 /\ events' = events \o <<Event("fire", t.item), Event("select", t.item)>>
       ELSE /\ clickCountRef' = 0
            /\ events' = Append(events, Event("fire", t.item))
            /\ UNCHANGED selectedId
    /\ UNCHANGED <<nativeMetrics, fvInstrumented, fvStatus, clickTimeoutRef,
                   lastClickedIdRef, nextHandle, now, notFolder>>

\* The mount effect of the instrumented view calls Sentry.metrics.increment and
\* Sentry.metrics.gauge; an effect that throws takes the view down.
Mount ==
    /\ fvStatus = "unmounted"
    /\ fvStatus' = IF DirectMetricThrows("increment") \/ DirectMetricThrows("gauge")
                   THEN "crashed" ELSE "mounted"
    /\ UNCHANGED <<nativeMetrics, fvInstrumented, selectedId, clickTimeoutRef,
                   clickCountRef, lastClickedIdRef, timers, nextHandle, now, events,
                   notFolder>>

\* Time passes.  A due timer need not run at once: the host runs it when it
\* gets to it, so a click may still arrive first.
Tick ==
    /\ now + TickStep <= MaxTime
    /\ now' = now + TickStep
    /\ UNCHANGED <<nativeMetrics, fvInstrumented, fvStatus, selectedId, clickTimeoutRef,
                   clickCountRef, lastClickedIdRef, timers, nextHandle, events,
                   notFolder>>

Click == \E item \in Items : handleItemClick(item)
TimerFires == \E t \in timers : onTimeout(t)

FolderRefsInit ==
    /\ fvStatus = "unmounted"
    /\ selectedId = NoItem
    /\ clickTimeoutRef = 0
    /\ clickCountRef = 0
    /\ lastClickedIdRef = NoItem
    /\ timers = {}
    /\ nextHandle = 1
    /\ now = 0
    /\ events = <<>>

FolderInit ==
    /\ nativeMetrics \in SUBSET MetricShapes
    /\ fvInstrumented \in BOOLEAN
    /\ FolderRefsInit

FolderParked ==
    /\ nativeMetrics = MetricShapes
    /\ fvInstrumented = FALSE
    /\ FolderRefsInit

FolderNext ==
    \/ Mount
    \/ Click
    \/ TimerFires
    \/ Tick

(***************************************************************************)
(* Chat relay endpoint: POST /api/chat                                     *)
(***************************************************************************)

\* Length of the longest message list in a request.
MaxMsgs == 2

\* Number of upstream events explored per request.
MaxEvents == 3

\* MessageInput.role
Roles == {"user", "assistant"}

\* The message lists of at most MaxMsgs messages.  Every element is a
\* MessageInput (a role and a content), as the handler's type declares; the
\* i-th message of a list carries the text numbered i, so the texts of one
\* request are distinct.
MessageLists ==
    UNION {{[i \in 1..n |-> [role |-> r[i], content |-> i]] : r \in [1..n -> Roles]}
           : n \in 0..MaxMsgs}

\* The values of the body's messages field: absent, null, "", a non-empty
\* string, an object that is no array, or an array of messages.
MessagesValues ==
    {[kind |-> k] : k \in {"undefined", "null", "emptyString", "string", "object"}}
    \cup {[kind |-> "array", items |-> ms] : ms \in MessageLists}

\* The request bodies: one that request.json() cannot parse, and the JSON
\* objects with each of the messages values.
Bodies ==
    {[json |-> FALSE]} \cup {[json |-> TRUE, messages |-> v] : v \in MessagesValues}

\* JavaScript truthiness of the messages value (!messages)
Truthy(v) == v.kind \in {"string", "object", "array"}

\* Array.isArray(messages)
IsArray(v) == v.kind = "array"

\* messages.filter(m => m.role === 'user')
UserMessages(ms) == SelectSeq(ms, LAMBDA m : m.role = "user")

\* ValidationError without the Array.isArray test.
ValidationError_NoArrayCheck(v) ==
    IF ~Truthy(v) THEN "Messages array is required"
    ELSE IF ~IsArray(v) THEN "No user message found"
    ELSE IF UserMessages(v.items) = <<>> THEN "No user message found"
    ELSE ""

\* The two validation checks of POST, in order: the error of the 400 response,
\* or "" when the request passes.
ValidationError(v) ==
    IF ~Truthy(v) \/ ~IsArray(v) THEN "Messages array is required"
    ELSE IF UserMessages(v.items) = <<>> THEN "No user message found"
    ELSE ""

\* messages.filter(m => m.role === 'user').pop()
LastUserMessage(ms) == LET us == UserMessages(ms) IN us[Len(us)]

\* `${m.role === 'user' ? 'User' : 'Assistant'}: ${m.content}`
Line(m) ==
    [part |-> "line",
     speaker |-> IF m.role = "user" THEN "User" ELSE "Assistant",
     content |-> m.content]

\* messages.slice(0, -1).map(...), the lines that join('\n\n') strings together
ConversationContext(ms) ==
    IF ms = <<>> THEN <<>> ELSE [i \in 1..(Len(ms) - 1) |-> Line(ms[i])]

\* fullPrompt, as the sequence of its parts: the preamble, the transcript
\* under its heading when it is not empty, and the last user message.
FullPrompt(ms) ==
    LET ctx == ConversationContext(ms)
        final == [part |-> "line", speaker |-> "User",
                  content |-> LastUserMessage(ms).content]
    IN  IF ctx # <<>>
        THEN <<[part |-> "SYSTEM_PROMPT"], [part |-> "Previous conversation:"]>>
             \o ctx \o <<final>>
        ELSE <<[part |-> "SYSTEM_PROMPT"], final>>

\* `data: ${payload}\n\n`
Sse(payload) == [data |-> payload]

\* 'data: [DONE]\n\n'
DoneSentinel == Sse([literal |-> "[DONE]"])

TextDeltaFrame(text) == Sse([type |-> "text_delta", text |-> text])
ToolStartFrame(tool) == Sse([type |-> "tool_start", tool |-> tool])
ToolProgressFrame(tool, elapsed) ==
    Sse([type |-> "tool_progress", tool |-> tool, elapsed |-> elapsed])
DoneFrame == Sse([type |-> "done"])
ErrorFrame(message) == Sse([type |-> "error", message |-> message])

\* The messages the upstream query yields.
StreamEvent(etype, dtype, text) ==
    [type |-> "stream_event", event |-> [type |-> etype, delta |-> [type |-> dtype, text |-> text]]]
AssistantMessage(blocks) == [type |-> "assistant", content |-> blocks]
ToolUse(name) == [type |-> "tool_use", name |-> name]
TextBlock == [type |-> "text", name |-> ""]
ToolProgress(tool, elapsed) ==
    [type |-> "tool_progress", tool_name |-> tool, elapsed_time_seconds |-> elapsed]
Result(subtype) == [type |-> "result", subtype |-> subtype]

UpstreamMessages ==
    { StreamEvent("content_block_delta", "text_delta", "Hel"),
      StreamEvent("content_block_delta", "text_delta", "lo"),
      StreamEvent("content_block_delta", "input_json_delta", ""),
      AssistantMessage(<<ToolUse("WebSearch"), TextBlock, ToolUse("Bash")>>),
      AssistantMessage(<<TextBlock>>),
      ToolProgress("Bash", 2),
      Result("success"),
      Result("error_max_turns"),
      [type |-> "system"] }

\* TextDeltaFrames that forwards every content_block_delta, whatever its
\* delta type.
TextDeltaFrames_AnyDelta(message) ==
    IF message.type = "stream_event"
    THEN IF message.event.type = "content_block_delta"
         THEN <<TextDeltaFrame(message.event.delta.text)>>
         ELSE <<>>
    ELSE <<>>

\* lines 124-133: streaming text deltas
TextDeltaFrames(message) ==
    IF message.type = "stream_event"
    THEN IF message.event.type = "content_block_delta"
            /\ message.event.delta.type = "text_delta"
         THEN <<TextDeltaFrame(message.event.delta.text)>>
         ELSE <<>>
    ELSE <<>>

\* lines 139-155: one tool_start per tool_use block, in block order
RECURSIVE ToolStartsOf(_)
ToolStartsOf(blocks) ==
    IF blocks = <<>> THEN <<>>
    ELSE (IF Head(blocks).type = "tool_use"
          THEN <<ToolStartFrame(Head(blocks).name)>> ELSE <<>>)
         \o ToolStartsOf(Tail(blocks))

\* lines 136-157
ToolStartFrames(message) ==
    IF message.type = "assistant" THEN ToolStartsOf(message.content) ELSE <<>>

\* lines 160-164
ToolProgressFrames(message) ==
    IF message.type = "tool_progress"
    THEN <<ToolProgressFrame(message.tool_name, message.elapsed_time_seconds)>>
    ELSE <<>>

\* lines 167-187
SuccessFrames(message) ==
    IF message.type = "result"
    THEN IF message.subtype = "success" THEN <<DoneFrame>> ELSE <<>>
    ELSE <<>>

\* lines 190-202
FailureFrames(message) ==
    IF message.type = "result"
    THEN IF message.subtype # "success"
         THEN <<ErrorFrame("Query did not complete successfully")>> ELSE <<>>
    ELSE <<>>

\* FramesFor whose success branch enqueues nothing.
FramesFor_NoDone(message) ==
    TextDeltaFrames(message) \o ToolStartFrames(message) \o ToolProgressFrames(message)
    \o FailureFrames(message)

\* The frames one pass of the for-await body enqueues, in the order of its
\* five if-statements.
FramesFor(message) ==
    TextDeltaFrames(message) \o ToolStartFrames(message) \o ToolProgressFrames(message)
    \o SuccessFrames(message) \o FailureFrames(message)

\* Before POST is called there is no request and no response.
NoRequest == [received |-> FALSE]
NoResponse == [status |-> 0]
JsonResponse(status, error) == [status |-> status, error |-> error]
\* new Response(stream, { headers: text/event-stream ... }): status 200
StreamResponse == [status |-> 200, stream |-> TRUE]

ChatInit ==
    /\ chatPc = "idle"
    /\ request = NoRequest
    /\ response = NoResponse
    /\ queries = <<>>
    /\ upstream = <<>>
    /\ frames = <<>>
    /\ closes = 0
    /\ streamEnd = "none"

\* POST without the outer try / catch: a body that cannot be parsed leaves
\* the request without a response.
POST_ParseErrorEscapes(body) ==
    /\ chatPc = "idle"
    /\ request' = body
    /\ IF ~body.json
       THEN /\ response' = NoResponse
            /\ chatPc' = "responded"
            /\ UNCHANGED queries
       ELSE IF ValidationError(body.messages) # ""
       THEN /\ response' = JsonResponse(400, ValidationError(body.messages))
            /\ chatPc' = "responded"
            /\ UNCHANGED queries
       ELSE /\ response' = StreamResponse
            /\ queries' = Append(queries, FullPrompt(body.messages.items))
            /\ chatPc' = "streaming"
    /\ UNCHANGED <<upstream, frames, closes, streamEnd, notChat>>

\* POST up to its return: the validation, the prompt, the construction of the
\* stream (whose start() opens the query) and the response.
POST(body) ==
    /\ chatPc = "idle"
    /\ request' = body
    /\ IF ~body.json
       THEN \* request.json() throws: the outer catch
            /\ response' = JsonResponse(500,
                   "Failed to process chat request. Check server logs for details.")
            /\ chatPc' = "responded"
            /\ UNCHANGED queries
       ELSE IF ValidationError(body.messages) # ""
       THEN /\ response' = JsonResponse(400, ValidationError(body.messages))
            /\ chatPc' = "responded"
            /\ UNCHANGED queries
       ELSE /\ response' = StreamResponse
            /\ queries' = Append(queries, FullPrompt(body.messages.items))
            /\ chatPc' = "streaming"
    /\ UNCHANGED <<upstream, frames, closes, streamEnd, notChat>>

\* onMessage that puts the frames of the new message in front of the frames
\* already enqueued.
onMessage_Prepends(message) ==
    /\ chatPc = "streaming"
    /\ Len(upstream) < MaxEvents
    /\ upstream' = Append(upstream, message)
    /\ frames' = FramesFor(message) \o frames
    /\ UNCHANGED <<chatPc, request, response, queries, closes, streamEnd, notChat>>

\* One pass of the for-await loop: the upstream yields a message and the body
\* enqueues its frames before the next message is awaited.
onMessage(message) ==
    /\ chatPc = "streaming"
    /\ Len(upstream) < MaxEvents
    /\ upstream' = Append(upstream, message)
    /\ frames' = frames \o FramesFor(message)
    /\ UNCHANGED <<chatPc, request, response, queries, closes, streamEnd, notChat>>

\* onUpstreamEnd after which the loop goes on relaying.
onUpstreamEnd_KeepsRelaying ==
    /\ chatPc = "streaming"
    /\ closes < 2
    /\ frames' = Append(frames, DoneSentinel)
    /\ closes' = closes + 1
    /\ streamEnd' = "ended"
    /\ UNCHANGED <<chatPc, request, response, queries, upstream, notChat>>

\* The upstream sequence ends: lines 205-206.
onUpstreamEnd ==
    /\ chatPc = "streaming"
    /\ frames' = Append(frames, DoneSentinel)
    /\ closes' = closes + 1
    /\ streamEnd' = "ended"
    /\ chatPc' = "closed"
    /\ UNCHANGED <<request, response, queries, upstream, notChat>>

\* onUpstreamThrow whose catch block opens the query again with the same
\* prompt.
onUpstreamThrow_Retries ==
    /\ chatPc = "streaming"
    /\ frames' = Append(frames, ErrorFrame("Stream error occurred"))
    /\ queries' = Append(queries, queries[1])
    /\ closes' = closes + 1
    /\ streamEnd' = "threw"
    /\ chatPc' = "closed"
    /\ UNCHANGED <<request, response, upstream, notChat>>

\* onUpstreamThrow whose catch block forgets controller.close().
onUpstreamThrow_NoClose ==
    /\ chatPc = "streaming"
    /\ frames' = Append(frames, ErrorFrame("Stream error occurred"))
    /\ streamEnd' = "threw"
    /\ chatPc' = "closed"
    /\ UNCHANGED <<closes, request, response, queries, upstream, notChat>>

\* Awaiting the next upstream message throws: the catch block, lines 207-222.
onUpstreamThrow ==
    /\ chatPc = "streaming"
    /\ frames' = Append(frames, ErrorFrame("Stream error occurred"))
    /\ closes' = closes + 1
    /\ streamEnd' = "threw"
    /\ chatPc' = "closed"
    /\ UNCHANGED <<request, response, queries, upstream, notChat>>

Receive == \E body \in Bodies : POST(body)
Forward == \E message \in UpstreamMessages : onMessage(message)

ChatNext ==
    \/ Receive
    \/ Forward
    \/ onUpstreamEnd
    \/ onUpstreamThrow

(***************************************************************************)
(* Metrics shim (lib/metrics.ts)                                           *)
(***************************************************************************)

\* Number of shim calls explored.
MaxCalls == 2

\* JavaScript values of the breadcrumb's data object, by type.
Num(n) == [number |-> n]
Str(str) == [string |-> str]
Undefined == [undefined |-> TRUE]

\* The arguments of the calls: names, values, options.tags (a
\* Record<string, string>; none when options or options.tags is absent) and
\* options.unit.
MetricNames == {"window.close"}
MetricValues == {1, 5}
NoTags == [k \in {} |-> ""]
TagSets ==
    {NoTags, [windowId |-> "w1"], [windowId |-> "w1", dimension |-> "area"],
     [metric |-> "other"], [value |-> "9"], [type |-> "timer"], [unit |-> "second"]}
Units == {Undefined, Str("millisecond")}

\* { ...base, ...options?.tags }: an object literal's later keys win.
Spread(base, tags) ==
    [k \in DOMAIN base \cup DOMAIN tags |->
        IF k \in DOMAIN tags THEN Str(tags[k]) ELSE base[k]]

\* The argument of Sentry.addBreadcrumb in the fallback branches.
Breadcrumb(name, data) ==
    [category |-> "metric", message |-> [template |-> "Metric: ", name |-> name],
     level |-> "debug", data |-> data]

\* Sentry.metrics && typeof Sentry.metrics[shape] === 'function'
Available(shape) == shape \in nativeMetrics

CanCall == Len(nativeCalls) + Len(breadcrumbs) < MaxCalls

\* metrics.increment, lines 5-18
increment(name, value, tags) ==
    /\ CanCall
    /\ IF Available("increment")
       THEN /\ nativeCalls' = Append(nativeCalls,
                   [shape |-> "increment", name |-> name, value |-> value,
                    options |-> [tags |-> tags]])
            /\ UNCHANGED breadcrumbs
       ELSE /\ breadcrumbs' = Append(breadcrumbs,
                   Breadcrumb(name, Spread([metric |-> Str(name), value |-> Num(value),
                                            type |-> Str("increment")], tags)))
            /\ UNCHANGED nativeCalls
    /\ UNCHANGED notShim

\* gauge routed by the availability of increment.
gauge_RoutedByIncrement(name, value, tags) ==
    /\ CanCall
    /\ IF Available("increment")
       THEN /\ nativeCalls' = Append(nativeCalls,
                   [shape |-> "gauge", name |-> name, value |-> value,
                    options |-> [tags |-> tags]])
            /\ UNCHANGED breadcrumbs
       ELSE /\ breadcrumbs' = Append(breadcrumbs,
                   Breadcrumb(name, Spread([metric |-> Str(name), value |-> Num(value),
                                            type |-> Str("gauge")], tags)))
            /\ UNCHANGED nativeCalls
    /\ UNCHANGED notShim

\* metrics.gauge, lines 20-31
gauge(name, value, tags) ==
    /\ CanCall
    /\ IF Available("gauge")
       THEN /\ nativeCalls' = Append(nativeCalls,
                   [shape |-> "gauge", name |-> name, value |-> value,
                    options |-> [tags |-> tags]])
            /\ UNCHANGED breadcrumbs
       ELSE /\ breadcrumbs' = Append(breadcrumbs,
                   Breadcrumb(name, Spread([metric |-> Str(name), value |-> Num(value),
                                            type |-> Str("gauge")], tags)))
            /\ UNCHANGED nativeCalls
    /\ UNCHANGED notShim

\* metrics.distribution, lines 33-44
distribution(name, value, tags, unit) ==
    /\ CanCall
    /\ IF Available("distribution")
       THEN /\ nativeCalls' = Append(nativeCalls,
                   [shape |-> "distribution", name |-> name, value |-> value,
                    options |-> [tags |-> tags, unit |-> unit]])
            /\ UNCHANGED breadcrumbs
       ELSE /\ breadcrumbs' = Append(breadcrumbs,
                   Breadcrumb(name, Spread([metric |-> Str(name), value |-> Num(value),
                                            type |-> Str("distribution"),
                                            unit |-> unit], tags)))
            /\ UNCHANGED nativeCalls
    /\ UNCHANGED notShim

Increment ==
    \E name \in MetricNames, value \in MetricValues, tags \in TagSets :
        increment(name, value, tags)
Gauge ==
    \E name \in MetricNames, value \in MetricValues, tags \in TagSets :
        gauge(name, value, tags)
Distribution ==
    \E name \in MetricNames, value \in MetricValues, tags \in TagSets, unit \in Units :
        distribution(name, value, tags, unit)

ShimInit ==
    /\ nativeCalls = <<>>
    /\ breadcrumbs = <<>>

MetricsNext ==
    \/ Increment
    \/ Gauge
    \/ Distribution

(***************************************************************************)
(* Specifications                                                          *)
(***************************************************************************)

InitWM == WMInit /\ FolderParked /\ ChatInit /\ ShimInit

InitFolder == WMInit /\ FolderInit /\ ChatInit /\ ShimInit

InitChat == WMInit /\ FolderParked /\ ChatInit /\ ShimInit

\* The shim in a build with any of the three Sentry.metrics functions.
InitMetrics ==
    /\ WMInit
    /\ nativeMetrics \in SUBSET MetricShapes
    /\ fvInstrumented = FALSE
    /\ FolderRefsInit
    /\ ChatInit
    /\ ShimInit

WMSpec == InitWM /\ [][WMNext]_vars

FolderSpec == InitFolder /\ [][FolderNext]_vars

ChatSpec == InitChat /\ [][ChatNext]_vars

MetricsSpec == InitMetrics /\ [][MetricsNext]_vars


(***************************************************************************)
(* Window manager: properties                                              *)
(***************************************************************************)

Focused == {i \in DOMAIN windows : windows[i].isFocused}

\* C1: after any sequence of window-manager operations, on any ids, at most
\* one window record is focused (and none when the list is empty).
SingleFocus == Cardinality(Focused) <= 1

\* C1 witness: two windows, one of them minimized, exactly one focused, after
\* three z-order allocations.
SingleFocusWitness ==
    /\ Len(windows) = 2
    /\ Cardinality(Focused) = 1
    /\ \E i \in DOMAIN windows : windows[i].isMinimized
    /\ topZIndex = InitialZIndex + 3

\* C2: no window record is minimized and focused at the same time, in any
\* state the operations reach (focus on a minimized record and open of a
\* minimized descriptor included).
NeverMinimizedAndFocused ==
    \A i \in DOMAIN windows : ~(windows[i].isMinimized /\ windows[i].isFocused)

\* C3: close, minimize, maximize, restore, focus, move and resize with an id
\* that matches no record change neither the window list nor topZIndex.
MissingIdIsNoOp ==
    [][\A id \in Ids :
         (/\ ~Exists(windows, id)
          /\ \/ closeWindow(id)
             \/ minimizeWindow(id)
             \/ maximizeWindow(id)
             \/ restoreWindow(id)
             \/ focusWindow(id)
             \/ \E p \in Positions : updateWindowPosition(id, p[1], p[2])
             \/ \E s \in Sizes : updateWindowSize(id, s[1], s[2]))
         => UNCHANGED <<windows, topZIndex>>]_vars


\* The records other than id are what they were.
OthersUnchanged(id) ==
    /\ Len(windows') = Len(windows)
    /\ \A i \in DOMAIN windows : windows[i].id # id => windows'[i] = windows[i]

\* The records other than id are what they were, but for isFocused = false.
OthersOnlyUnfocused(id) ==
    /\ Len(windows') = Len(windows)
    /\ \A i \in DOMAIN windows :
         windows[i].id # id => windows'[i] = [windows[i] EXCEPT !.isFocused = FALSE]

\* C11: right after focus(id) on an existing record, that record's zIndex is
\* strictly above every other record's, it is the only focused record, and
\* its isMinimized flag is what it was.
FocusRaisesAboveAll ==
    [][\A id \in Ids :
         (Exists(windows, id) /\ focusWindow(id))
         => /\ Len(windows') = Len(windows)
            /\ \A i \in DOMAIN windows :
                 IF windows[i].id = id
                 THEN /\ windows'[i].isFocused
                      /\ windows'[i].isMinimized = windows[i].isMinimized
                      /\ \A j \in DOMAIN windows :
                           j # i => windows'[j].zIndex < windows'[i].zIndex
                 ELSE ~windows'[i].isFocused]_vars

\* C11 witness: w1 was opened minimized, w2 opened after it, and then w1 was
\* focused: it is on top and focused, and still minimized.
FocusRaisesWitness ==
    /\ Len(windows) = 2
    /\ windows[1].isFocused /\ windows[1].isMinimized
    /\ windows[1].zIndex = InitialZIndex + 3
    /\ windows[2].zIndex = InitialZIndex + 2
    /\ ~windows[2].isFocused

\* C12: open(descriptor) with an id already in the list changes only that
\* record's isMinimized (to false), isFocused (to true) and zIndex (to the
\* next counter value) and clears isFocused on the others; the length is the
\* same and the record keeps its title, geometry, isMaximized and content
\* rather than taking the descriptor's.
ReopenKeepsStoredRecord ==
    [][\A window \in Descriptors :
         (Exists(windows, window.id) /\ openWindow(window))
         => /\ OthersOnlyUnfocused(window.id)
            /\ \A i \in DOMAIN windows :
                 windows[i].id = window.id
                 => windows'[i] = [windows[i] EXCEPT !.isMinimized = FALSE,
                                                     !.isFocused = TRUE,
                                                     !.zIndex = topZIndex + 1]]_vars

\* C12 witness: w1, moved, resized and maximized, is back on top after w2
\* was opened, with the geometry and the flag it had.
ReopenWitness ==
    /\ Len(windows) = 2
    /\ windows[1].id = "w1" /\ windows[1].isFocused /\ ~windows[1].isMinimized
    /\ windows[1].x = 5 /\ windows[1].width = 1 /\ windows[1].isMaximized
    /\ windows[1].zIndex = InitialZIndex + 3
    /\ windows[1].zIndex = topZIndex
    /\ ~windows[2].isFocused

\* C13: open(descriptor) with an id not in the list appends exactly one
\* record, last, with the descriptor's fields as given, zIndex = the previous
\* topZIndex + 1 and isFocused = true; the records already there keep their
\* place and every field but isFocused, which becomes false.
OpenAppendsDescriptor ==
    [][\A window \in Descriptors :
         (~Exists(windows, window.id) /\ openWindow(window))
         => /\ Len(windows') = Len(windows) + 1
            /\ \A f \in DOMAIN window : windows'[Len(windows')][f] = window[f]
            /\ windows'[Len(windows')].zIndex = topZIndex + 1
            /\ windows'[Len(windows')].isFocused
            /\ \A i \in DOMAIN windows :
                 windows'[i] = [windows[i] EXCEPT !.isFocused = FALSE]]_vars

\* C13 witness: a minimized descriptor "b" opened for w2 after w1.
OpenAppendsWitness ==
    /\ Len(windows) = 2
    /\ windows[2] = NewRecord(Descriptor("w2", "b", TRUE), InitialZIndex + 2)
    /\ windows[1].id = "w1" /\ ~windows[1].isFocused
    /\ windows[1].zIndex = InitialZIndex + 1
    /\ topZIndex = InitialZIndex + 2


\* C14: opening ids that are not yet in the list, starting from the empty
\* list: after each call exactly one record is focused, the one just opened.
FreshOpenFocusesTheOpened ==
    [][\A window \in Descriptors :
         (~Exists(windows, window.id) /\ openWindow(window))
         => /\ Cardinality({i \in DOMAIN windows' : windows'[i].isFocused}) = 1
            /\ \A i \in DOMAIN windows' :
                 windows'[i].isFocused <=> windows'[i].id = window.id]_vars

\* C14 witness: w2 then w1 opened from the empty list and nothing else done:
\* only w1, the last opened, is focused.
FreshOpenWitness ==
    /\ Len(windows) = 2
    /\ windows[1] = [NewRecord(Descriptor("w2", "a", FALSE), InitialZIndex + 1)
                        EXCEPT !.isFocused = FALSE]
    /\ windows[2] = NewRecord(Descriptor("w1", "a", FALSE), InitialZIndex + 2)
    /\ Focused = {2}
    /\ topZIndex = InitialZIndex + 2

\* C15: in every reachable state the ids of the records are pairwise
\* distinct, however often the same id is opened.
IdsDistinct ==
    \A i, j \in DOMAIN windows : i # j => windows[i].id # windows[j].id

\* C15 witness: both ids are open and the counter has moved twice more than
\* two first opens need, w1 having been brought back to the front last.
IdsDistinctWitness ==
    /\ Len(windows) = 2
    /\ windows[1].id = "w1" /\ windows[2].id = "w2"
    /\ topZIndex = InitialZIndex + MaxZ
    /\ windows[1].zIndex = topZIndex /\ windows[1].isFocused
    /\ ~windows[1].isMinimized

\* C16: after minimize(id) on an existing record, the record has
\* isMinimized = true and isFocused = false; its other fields, the other
\* records and topZIndex are what they were, so no other window gains focus.
MinimizeOnlyMinimizesAndUnfocuses ==
    [][\A id \in Ids :
         (Exists(windows, id) /\ minimizeWindow(id))
         => /\ topZIndex' = topZIndex
            /\ OthersUnchanged(id)
            /\ \A i \in DOMAIN windows :
                 windows[i].id = id
                 => windows'[i] = [windows[i] EXCEPT !.isMinimized = TRUE,
                                                     !.isFocused = FALSE]
            /\ {i \in DOMAIN windows' : windows'[i].isFocused} \subseteq Focused]_vars

\* C16 witness: the top window was minimized; it still has the highest
\* zIndex, and no window is focused.
MinimizeWitness ==
    /\ Len(windows) = 2
    /\ windows[2].isMinimized /\ ~windows[2].isFocused
    /\ windows[2].zIndex = topZIndex
    /\ windows[1].zIndex < topZIndex /\ ~windows[1].isMinimized
    /\ Focused = {}

\* C17: close(id) removes exactly the record with that id when there is one,
\* the other records keeping their order and fields, and topZIndex is
\* unchanged; with no such record the list is the same before and after.
CloseRemovesExactlyOne ==
    [][\A id \in Ids :
         closeWindow(id)
         => /\ topZIndex' = topZIndex
            /\ IF Exists(windows, id)
               THEN \E k \in DOMAIN windows :
                      /\ windows[k].id = id
                      /\ windows' = SubSeq(windows, 1, k - 1)
                                      \o SubSeq(windows, k + 1, Len(windows))
               ELSE windows' = windows]_vars

\* C17 witness: w1, opened first and left in the background, was closed; w2
\* is alone, focused and with the zIndex of the second open.
CloseWitness ==
    /\ Len(windows) = 1
    /\ windows[1] = NewRecord(Descriptor("w2", "b", FALSE), InitialZIndex + 2)
    /\ topZIndex = InitialZIndex + 2


\* C18: after restore(id) on an existing record, the record has
\* isMinimized = false, isFocused = true and zIndex = the previous
\* topZIndex + 1, strictly above every other record; every other record has
\* isFocused = false and its other fields as before.
RestoreUnminimizesFocusesRaises ==
    [][\A id \in Ids :
         (Exists(windows, id) /\ restoreWindow(id))
         => /\ OthersOnlyUnfocused(id)
            /\ \A i \in DOMAIN windows :
                 windows[i].id = id
                 => /\ windows'[i] = [windows[i] EXCEPT !.isMinimized = FALSE,
                                                        !.isFocused = TRUE,
                                                        !.zIndex = topZIndex + 1]
                    /\ \A j \in DOMAIN windows :
                         j # i => windows'[j].zIndex < windows'[i].zIndex]_vars

\* C18 witness: both windows were minimized, then w2 was restored: it is
\* shown, focused and on top, and w1 is still minimized.
RestoreWitness ==
    /\ Len(windows) = 2
    /\ windows[2].id = "w2" /\ windows[2].isFocused /\ ~windows[2].isMinimized
    /\ windows[2].zIndex = InitialZIndex + 3 /\ topZIndex = InitialZIndex + 3
    /\ windows[1].isMinimized /\ ~windows[1].isFocused
    /\ windows[1].zIndex = InitialZIndex + 1

\* C19: maximize(id) on an existing record flips that record's isMaximized
\* and nothing else: geometry, zIndex, isFocused, isMinimized, the other
\* records and topZIndex are as before; a second maximize(id) right after
\* gives back the state before the first.
MaximizeTogglesOnlyTheFlag ==
    [][\A id \in Ids :
         (Exists(windows, id) /\ maximizeWindow(id))
         => /\ topZIndex' = topZIndex
            /\ OthersUnchanged(id)
            /\ \A i \in DOMAIN windows :
                 windows[i].id = id
                 => windows'[i] = [windows[i] EXCEPT !.isMaximized = ~windows[i].isMaximized]
            /\ MaximizeUpdate(windows', id) = windows]_vars

\* C19 witness: the background window was maximized: its flag is set, its
\* geometry is the descriptor's, and the focus is still on the other window.
MaximizeWitness ==
    /\ Len(windows) = 2
    /\ windows[1].isMaximized /\ ~windows[1].isFocused
    /\ windows[1].x = 0 /\ windows[1].y = 0
    /\ windows[1].width = 3 /\ windows[1].height = 3
    /\ ~windows[2].isMaximized /\ windows[2].isFocused
    /\ windows[2].zIndex = topZIndex

\* C20: move(id, x, y) sets only the record's x and y, and
\* resize(id, width, height) only its width and height, to the values given,
\* without clamping: a size below minWidth / minHeight is stored as given.
\* zIndex, the focus and minimized / maximized flags of every record, and
\* topZIndex are as before.
MoveAndResizeSetOnlyGeometry ==
    [][\A id \in Ids :
         /\ \A p \in Positions :
              (Exists(windows, id) /\ updateWindowPosition(id, p[1], p[2]))
              => /\ topZIndex' = topZIndex
                 /\ OthersUnchanged(id)
                 /\ \A i \in DOMAIN windows :
                      windows[i].id = id
                      => windows'[i] = [windows[i] EXCEPT !.x = p[1], !.y = p[2]]
         /\ \A sz \in Sizes :
              (Exists(windows, id) /\ updateWindowSize(id, sz[1], sz[2]))
              => /\ topZIndex' = topZIndex
                 /\ OthersUnchanged(id)
                 /\ \A i \in DOMAIN windows :
                      windows[i].id = id
                      => windows'[i] = [windows[i] EXCEPT !.width = sz[1],
                                                          !.height = sz[2]]]_vars

\* C20 witness: the background window was moved and resized below its
\* minimum size; it holds the values given and its zIndex and flags, and
\* the other window, are untouched.
MoveAndResizeWitness ==
    /\ Len(windows) = 2
    /\ windows[1].x = 5 /\ windows[1].y = 7
    /\ windows[1].width = 1 /\ windows[1].width < windows[1].minWidth
    /\ windows[1].height = 1 /\ windows[1].height < windows[1].minHeight
    /\ windows[1].zIndex = InitialZIndex + 1 /\ ~windows[1].isFocused
    /\ windows[2] = NewRecord(Descriptor("w2", "a", FALSE), InitialZIndex + 2)
    /\ topZIndex = InitialZIndex + 2


\* C21: a taskbar click on a window issues one window-manager operation,
\* restore if the window is minimized and focus otherwise; after it the
\* clicked window is not minimized, is the only focused window and has the
\* strictly highest zIndex, and the list has the same records in the same
\* places, changed only as that operation changes them.
TaskbarClickRaisesTheWindow ==
    [][\A i \in DOMAIN windows :
         handleWindowClick(windows[i].id, windows[i].isMinimized)
         => /\ IF windows[i].isMinimized
               THEN windows' = RestoreUpdate(windows, windows[i].id, topZIndex + 1)
               ELSE windows' = FocusUpdate(windows, windows[i].id, topZIndex + 1)
            /\ topZIndex' = topZIndex + 1
            /\ Len(windows') = Len(windows)
            /\ \A j \in DOMAIN windows : windows'[j].id = windows[j].id
            /\ ~windows'[i].isMinimized
            /\ \A j \in DOMAIN windows : windows'[j].isFocused <=> j = i
            /\ \A j \in DOMAIN windows :
                 j # i => windows'[j].zIndex < windows'[i].zIndex]_vars

\* C21 witness: w1, opened minimized before w2, was clicked in the taskbar:
\* it is shown, focused and on top of w2, which lost the focus.
TaskbarClickWitness ==
    /\ Len(windows) = 2
    /\ windows[1].id = "w1" /\ ~windows[1].isMinimized /\ windows[1].isFocused
    /\ windows[1].zIndex = InitialZIndex + 3 /\ topZIndex = InitialZIndex + 3
    /\ windows[2].id = "w2" /\ ~windows[2].isFocused /\ ~windows[2].isMinimized
    /\ windows[2].zIndex = InitialZIndex + 2
    /\ ~windows[1].isMaximized /\ windows[1].x = 0


\* C29: topZIndex starts at 100 and never decreases: each open, restore and
\* focus call adds exactly 1, every other operation 0.  A zIndex given to a
\* record is above every zIndex given before, so the records always have
\* pairwise distinct zIndex values, none above topZIndex.
CounterIsMonotonic ==
    /\ topZIndex = 100
    /\ [](\A i \in DOMAIN windows :
            /\ windows[i].zIndex <= topZIndex
            /\ \A j \in DOMAIN windows :
                 i # j => windows[i].zIndex # windows[j].zIndex)
    /\ [][/\ topZIndex' >= topZIndex
          /\ \A window \in Descriptors : openWindow(window) => topZIndex' = topZIndex + 1
          /\ \A id \in Ids :
               /\ restoreWindow(id) => topZIndex' = topZIndex + 1
               /\ focusWindow(id) => topZIndex' = topZIndex + 1
               /\ closeWindow(id) => topZIndex' = topZIndex
               /\ minimizeWindow(id) => topZIndex' = topZIndex
               /\ maximizeWindow(id) => topZIndex' = topZIndex
               /\ \A p \in Positions :
                    updateWindowPosition(id, p[1], p[2]) => topZIndex' = topZIndex
               /\ \A sz \in Sizes :
                    updateWindowSize(id, sz[1], sz[2]) => topZIndex' = topZIndex
          /\ \A i \in DOMAIN windows' :
               (\A j \in DOMAIN windows :
                    windows[j].id = windows'[i].id
                    => windows[j].zIndex # windows'[i].zIndex)
               => /\ windows'[i].zIndex = topZIndex + 1
                  /\ \A j \in DOMAIN windows : windows[j].zIndex < windows'[i].zIndex]_vars

\* C29 witness: four values have been handed out, two of them to the windows
\* now open, which hold the second and the fourth.
CounterWitness ==
    /\ topZIndex = InitialZIndex + 4
    /\ Len(windows) = 2
    /\ windows[1].zIndex = InitialZIndex + 2
    /\ windows[2].zIndex = InitialZIndex + 4

\* C30: in every reachable state a focused record has zIndex = topZIndex,
\* above the zIndex of every other record: the focused window is the top of
\* the stack.
FocusedIsTopOfStack ==
    \A i \in DOMAIN windows :
        windows[i].isFocused
        => /\ windows[i].zIndex = topZIndex
           /\ \A j \in DOMAIN windows : j # i => windows[j].zIndex < windows[i].zIndex

\* C30 witness: the window opened first is focused, maximized and minimized,
\* and holds the last value handed out, above the window opened after it.
FocusedIsTopWitness ==
    /\ Len(windows) = 2
    /\ windows[1].isFocused /\ windows[1].isMaximized /\ windows[1].isMinimized
    /\ windows[1].zIndex = topZIndex
    /\ windows[2].zIndex = InitialZIndex + 2
    /\ topZIndex = InitialZIndex + 4

(***************************************************************************)
(* Folder view: properties                                                 *)
(***************************************************************************)

\* The clicks and timer firings among the events: what the view was given.
IsInput(e) == e.kind \in {"click", "fire"}
Inputs(evs) == SelectSeq(evs, IsInput)

LastEvent == events[Len(events)]

\* This step handles a click on item i.
ClickOn(i) ==
    /\ Len(events') > Len(events)
    /\ events'[Len(events) + 1] = Event("click", i)

\* The last thing that happened is a click on i that armed a timer, and that
\* timer has not fired.
FirstClickPending(i) ==
    /\ events # <<>>
    /\ LastEvent = Event("click", i)
    /\ \E t \in timers : t.item = i

\* C6: a second click on the same item before the timer of the first has fired
\* calls onOpen for the item exactly once, selects the item, cancels the
\* pending timer and leaves the click counter at 0.
DoubleClickOpensOnce ==
    [][\A i \in Items :
         (FirstClickPending(i) /\ ClickOn(i))
         => /\ events' = events \o <<Event("click", i), Event("open", i)>>
            /\ selectedId' = i
            /\ timers' = {}
            /\ clickCountRef' = 0]_vars

\* C6 witness: two clicks on A, the second within the delay of the first; A
\* was opened once and is selected, and nothing is pending.
DoubleClickWitness ==
    /\ events = <<Event("click", "A"), Event("click", "A"), Event("open", "A")>>
    /\ now < ClickDelay
    /\ selectedId = "A"
    /\ timers = {}
    /\ clickCountRef = 0

\* C7: a click on A followed, before A's timer fires, by a click on another
\* item B calls no onOpen; onOpen is called only by a click whose preceding
\* click was on the same item and is still pending (counter 1).
OnOpenOnlyOnSecondClick ==
    [][/\ \A a, b \in Items :
            (a # b /\ FirstClickPending(a) /\ ClickOn(b))
            => events' = Append(events, Event("click", b))
       /\ \A i \in Items :
            (/\ Len(events') > Len(events)
             /\ \E k \in (Len(events) + 1)..Len(events') : events'[k] = Event("open", i))
            => /\ FirstClickPending(i)
               /\ clickCountRef = 1
               /\ events' = events \o <<Event("click", i), Event("open", i)>>]_vars

\* C7 witness: a click on A and then one on B, both within the delay of the
\* first; nothing was opened and B's timer is the one pending.
DifferentItemWitness ==
    /\ events = <<Event("click", "A"), Event("click", "B")>>
    /\ now < ClickDelay
    /\ \A t \in timers : t.item = "B"
    /\ timers # {}

\* C8: two clicks on the same item, the second after the timer of the first
\* has fired, are two single-select actions and no onOpen call: the first
\* timer selects the item, the second click only arms a new timer (counter 1),
\* and that timer selects the item again.
SlowClicksSelectTwice ==
    \A i \in Items, k \in 1..Len(events) :
        LET seg == SubSeq(events, k, Len(events))
            c == Event("click", i)
            f == Event("fire", i)
            s == Event("select", i)
        IN  /\ (events[k] = c /\ Inputs(seg) = <<c, f, c>>)
               => /\ seg = <<c, f, s, c>>
                  /\ clickCountRef = 1
                  /\ \E t \in timers : t.item = i
            /\ (events[k] = c /\ Inputs(seg) = <<c, f, c, f>>)
               => /\ seg = <<c, f, s, c, f, s>>
                  /\ selectedId = i
                  /\ clickCountRef = 0

\* C8 witness: click, timer, click, timer on A, after an earlier click on B.
SlowClicksWitness ==
    /\ Len(events) = 7
    /\ events[1] = Event("click", "B")
    /\ SubSeq(events, 2, 7) =
         <<Event("click", "A"), Event("fire", "A"), Event("select", "A"),
           Event("click", "A"), Event("fire", "A"), Event("select", "A")>>

\* C31: between click events the click counter is 0 or 1 and a
\* single-select timer is pending exactly when it is 1; at most one timer is
\* pending; when a timer fires the counter is 1 and the item it selects is the
\* last-clicked item.
CounterAndTimerAgree ==
    /\ [](/\ clickCountRef \in {0, 1}
          /\ timers # {} <=> clickCountRef = 1
          /\ Cardinality(timers) <= 1)
    /\ [][\A t \in timers :
            onTimeout(t)
            => /\ clickCountRef = 1
               /\ t.item = lastClickedIdRef
               /\ selectedId' = lastClickedIdRef]_vars

\* C31 witness: after a double click on A, one click on B: the counter is 1
\* and B's timer is the one timer pending.
CounterAndTimerWitness ==
    /\ events = <<Event("click", "A"), Event("click", "A"), Event("open", "A"),
                  Event("click", "B")>>
    /\ clickCountRef = 1
    /\ Cardinality(timers) = 1
    /\ \A t \in timers : t.item = "B"

\* The item of the last click among the first k events.
LastClickBefore(k) ==
    LET cs == SelectSeq(SubSeq(events, 1, k), IsClick)
    IN  IF cs = <<>> THEN NoItem ELSE cs[Len(cs)].item

\* C32: a click on A followed, before A's timer fires, by a click on another
\* item B cancels A's single-select: no timer of A fires after it, so A is not
\* selected by that click; B's click is a first click (counter 1, a new
\* timer), and one more click on B before that timer fires is a double click
\* that opens B.
DifferentItemCancelsPending ==
    /\ [](/\ \A k \in DOMAIN events :
               events[k].kind = "fire" => events[k].item = LastClickBefore(k)
          /\ \A a, b \in Items, k \in DOMAIN events :
               (/\ a # b
                /\ k + 2 <= Len(events)
                /\ SubSeq(events, k, k + 2)
                     = <<Event("click", a), Event("click", b), Event("click", b)>>)
               => /\ k + 3 <= Len(events)
                  /\ events[k + 3] = Event("open", b)
                  /\ \A n \in (k + 3)..Len(events) :
                       events[n] = Event("select", a)
                       => \E m \in (k + 3)..n : events[m] = Event("click", a))
    /\ [][\A a, b \in Items :
            (a # b /\ FirstClickPending(a) /\ ClickOn(b))
            => /\ clickCountRef' = 1
               /\ Cardinality(timers') = 1
               /\ \A t \in timers' : t.item = b /\ t \notin timers
               /\ selectedId' = selectedId]_vars

\* C32 witness: a click on A, then two on B, all within the delay of the
\* first: B was opened and is selected, A was not, and nothing is pending.
DifferentItemCancelsWitness ==
    /\ events = <<Event("click", "A"), Event("click", "B"), Event("click", "B"),
                  Event("open", "B")>>
    /\ now < ClickDelay
    /\ selectedId = "B"
    /\ timers = {}

\* C33: after any clicks with any timing, once the pending timer, if any, has
\* fired, the selected item is the last clicked item, the counter is 0 and no
\* timer is pending.
SettledSelectionIsLastClicked ==
    (ClickCount > 0 /\ timers = {})
    => /\ selectedId = lastClickedIdRef
       /\ selectedId = LastClickBefore(Len(events))
       /\ clickCountRef = 0

\* C33 witness: A was double-clicked and opened, then B was clicked once and
\* its timer has fired: B is selected.
SettledSelectionWitness ==
    /\ events = <<Event("click", "A"), Event("click", "A"), Event("open", "A"),
                  Event("click", "B"), Event("fire", "B"), Event("select", "B")>>
    /\ selectedId = "B"
    /\ timers = {}
    /\ clickCountRef = 0

\* C36: in the instrumented folder view click classification does not depend
\* on telemetry: whichever Sentry.metrics functions the build has, the view
\* is there to take clicks, a double click selects the item and calls its
\* onOpen exactly once, and the timer of a single click selects the item.
ClicksIgnoreTelemetry ==
    /\ [](fvInstrumented => fvStatus # "crashed")
    /\ [][fvInstrumented
          => /\ \A i \in Items :
                  (FirstClickPending(i) /\ ClickOn(i))
                  => /\ events' = events \o <<Event("click", i), Event("open", i)>>
                     /\ selectedId' = i
             /\ \A t \in timers :
                  (clickCountRef = 1 /\ onTimeout(t)) => selectedId' = t.item]_vars

(***************************************************************************)
(* Chat relay endpoint: properties                                         *)
(***************************************************************************)

LastFrame == frames[Len(frames)]
LastUpstream == upstream[Len(upstream)]

\* C4: every stream the endpoint opens (every 200 response) has the literal
\* [DONE] frame as its last frame when it is closed, whichever way the
\* consumption of the upstream sequence ended.
ClosedStreamEndsWithSentinel ==
    (response = StreamResponse /\ closes > 0)
    => (frames # <<>> /\ LastFrame = DoneSentinel)

\* C5: when awaiting the upstream throws after frames f1..fk were enqueued,
\* the stream is f1..fk, unchanged and in order, followed by one error frame,
\* and is then closed; nothing is enqueued or retracted after the close.
FailureKeepsSentFrames ==
    [][/\ (streamEnd = "none" /\ streamEnd' = "threw")
          => /\ Len(frames') = Len(frames) + 1
             /\ SubSeq(frames', 1, Len(frames)) = frames
             /\ frames'[Len(frames')].data.type = "error"
             /\ closes = 0
             /\ closes' = 1
       /\ closes > 0 => frames' = frames]_vars

\* C5 witness: the upstream threw after two text frames were sent.
FailureKeepsSentFramesWitness ==
    /\ streamEnd = "threw"
    /\ closes = 1
    /\ frames = <<TextDeltaFrame("Hel"), TextDeltaFrame("lo"),
                  ErrorFrame("Stream error occurred")>>

SuccessEndsWithDoneAndSentinel ==
    (streamEnd = "ended" /\ upstream # <<>> /\ LastUpstream = Result("success"))
    => /\ response = StreamResponse
       /\ Len(frames) >= 2
       /\ frames[Len(frames) - 1] = DoneFrame
       /\ LastFrame = DoneSentinel
       /\ closes = 1

\* C10 witness: text, a tool call and a success result, then the end.
SuccessEndsWithDoneWitness ==
    /\ streamEnd = "ended"
    /\ Len(upstream) = 3
    /\ LastUpstream = Result("success")
    /\ upstream[1] = StreamEvent("content_block_delta", "text_delta", "Hel")
    /\ upstream[2].type = "assistant"
    /\ Len(frames) = 5


\* The frames of the upstream messages ms, message by message.
RECURSIVE Relayed(_)
Relayed(ms) ==
    IF ms = <<>> THEN <<>> ELSE FramesFor(Head(ms)) \o Relayed(Tail(ms))

\* C22: the relay forwards in order: the frames enqueued are the frames of
\* the first upstream event, then those of the second, and so on, each frame
\* once and on its own, all of them enqueued before the next event is taken;
\* only the closing frame of the stream follows them.
RelayKeepsUpstreamOrder ==
    /\ chatPc = "streaming" => frames = Relayed(upstream)
    /\ chatPc = "closed"
       => /\ frames # <<>>
          /\ SubSeq(frames, 1, Len(frames) - 1) = Relayed(upstream)

\* C22 witness: three events, the first with two frames, have been relayed
\* and the loop awaits the next one.
RelayOrderWitness ==
    /\ chatPc = "streaming"
    /\ upstream = <<AssistantMessage(<<ToolUse("WebSearch"), TextBlock, ToolUse("Bash")>>),
                    StreamEvent("content_block_delta", "text_delta", "Hel"),
                    ToolProgress("Bash", 2)>>
    /\ frames = <<ToolStartFrame("WebSearch"), ToolStartFrame("Bash"),
                  TextDeltaFrame("Hel"), ToolProgressFrame("Bash", 2)>>

\* C23: the frames of one upstream event: a text delta gives one text_delta
\* frame with its text; an assistant message one tool_start frame per
\* tool_use block, in block order, with the tool's name; a tool_progress
\* event one tool_progress frame with its tool name and elapsed time; a
\* result one done frame if its subtype is success and one error frame
\* otherwise; any other event gives no frame.
EventToFrameRule ==
    [][\A message \in UpstreamMessages :
         onMessage(message)
         => LET out == SubSeq(frames', Len(frames) + 1, Len(frames'))
            IN
              /\ frames' = frames \o out
              /\ CASE message.type = "stream_event"
                        /\ message.event.type = "content_block_delta"
                        /\ message.event.delta.type = "text_delta"
                      -> out = <<TextDeltaFrame(message.event.delta.text)>>
                   [] message.type = "assistant"
                      -> LET tools == SelectSeq(message.content,
                                                LAMBDA b : b.type = "tool_use")
                         IN  /\ Len(out) = Len(tools)
                             /\ \A k \in DOMAIN tools :
                                  out[k] = ToolStartFrame(tools[k].name)
                   [] message.type = "tool_progress"
                      -> out = <<ToolProgressFrame(message.tool_name,
                                                   message.elapsed_time_seconds)>>
                   [] message.type = "result" /\ message.subtype = "success"
                      -> out = <<DoneFrame>>
                   [] message.type = "result" /\ message.subtype # "success"
                      -> /\ Len(out) = 1
                         /\ out[1].data.type = "error"
                   [] OTHER -> out = <<>>]_vars

\* C23 witness: an event with no frame, an assistant message with a text
\* block between two tool uses, and a failed result have been relayed.
EventToFrameWitness ==
    /\ upstream = <<StreamEvent("content_block_delta", "input_json_delta", ""),
                    AssistantMessage(<<ToolUse("WebSearch"), TextBlock, ToolUse("Bash")>>),
                    Result("error_max_turns")>>
    /\ Len(frames) = 3
    /\ frames[1] = ToolStartFrame("WebSearch") /\ frames[2] = ToolStartFrame("Bash")
    /\ frames[3].data.type = "error"
    /\ chatPc = "streaming"


\* The "Speaker: content" lines of a prompt, in order.
PromptLines(prompt) == SelectSeq(prompt, LAMBDA part : part.part = "line")

\* C24: for a request that passes validation, the prompt sent upstream is the
\* preamble, the transcript and the final user message, and every message of
\* the request is in it exactly once, in request order, whichever role the
\* last message has and however many messages there are.
PromptHoldsEveryMessageOnce ==
    queries # <<>>
    => LET ms == request.messages.items
       IN  /\ queries[1][1] = [part |-> "SYSTEM_PROMPT"]
           /\ PromptLines(queries[1]) = [i \in 1..Len(ms) |-> Line(ms[i])]


EveryRequestGetsOneResponse ==
    /\ [](chatPc # "idle"
          => /\ response \in
                  {JsonResponse(400, "Messages array is required"),
                   JsonResponse(400, "No user message found"),
                   StreamResponse,
                   JsonResponse(500, "Failed to process chat request. Check server logs for details.")}
             /\ ~request.json
                => /\ response.status = 500
                   /\ queries = <<>>)
    /\ [][response # NoResponse => response' = response]_vars

\* C26 witness: a body that is no JSON was answered with the 500 response
\* and no query was opened.
ParseFailureWitness ==
    /\ chatPc = "responded"
    /\ request = [json |-> FALSE]
    /\ response.status = 500
    /\ queries = <<>> /\ frames = <<>>


\* C34: a stream the endpoint opened is closed exactly once when the
\* upstream sequence ends or throws, on either path, and no frame is enqueued
\* after the close.
StreamClosedExactlyOnce ==
    /\ [](/\ closes \in {0, 1}
          /\ closes = 1 <=> streamEnd \in {"ended", "threw"}
          /\ closes = 1 => response = StreamResponse)
    /\ [][/\ (streamEnd = "none" /\ streamEnd' # "none")
             => /\ closes = 0 /\ closes' = 1
                /\ Len(frames') = Len(frames) + 1
          /\ closes > 0 => (frames' = frames /\ closes' = closes)]_vars

\* C34 witness: the upstream ended after a text delta and a successful
\* result; the stream was closed once, after the sentinel.
StreamClosedOnceWitness ==
    /\ streamEnd = "ended"
    /\ closes = 1
    /\ upstream = <<StreamEvent("content_block_delta", "text_delta", "lo"),
                    Result("success")>>
    /\ frames = <<TextDeltaFrame("lo"), DoneFrame, DoneSentinel>>

\* The type of a frame's payload; the [DONE] sentinel has none.
FrameType(f) == IF "type" \in DOMAIN f.data THEN f.data.type ELSE "sentinel"

\* The places of the outcome frames (done, error) among the frames.
OutcomeFrames == {k \in DOMAIN frames : FrameType(frames[k]) \in {"done", "error"}}

\* C35: a closed stream holds exactly one outcome frame, a done frame or an
\* error frame, and no text_delta, tool_start or tool_progress frame after
\* it, whatever the upstream sequence was.
ClosedStreamHasOneOutcome ==
    closes > 0
    => /\ Cardinality(OutcomeFrames) = 1
       /\ \A k \in OutcomeFrames, n \in DOMAIN frames :
            n > k => FrameType(frames[n]) \notin {"text_delta", "tool_start", "tool_progress"}

(***************************************************************************)
(* Metrics shim: properties                                                *)
(***************************************************************************)

\* The breadcrumb added by this step carries the call's name, value and tags.
CarriesPayload(name, value, tags) ==
    /\ Len(breadcrumbs') = Len(breadcrumbs) + 1
    /\ LET data == breadcrumbs'[Len(breadcrumbs')].data
       IN  /\ data["metric"] = Str(name)
           /\ data["value"] = Num(value)
           /\ \A k \in DOMAIN tags : data[k] = Str(tags[k])

\* C27: with the metrics function unavailable, the breadcrumb of an
\* increment, gauge or distribution call carries the call's metric name, its
\* value and each of its tags, for every tag set, those with a key named
\* metric, value, type or unit included.
BreadcrumbCarriesPayload ==
    [][\A name \in MetricNames, value \in MetricValues, tags \in TagSets :
         /\ (~Available("increment") /\ increment(name, value, tags))
            => CarriesPayload(name, value, tags)
         /\ (~Available("gauge") /\ gauge(name, value, tags))
            => CarriesPayload(name, value, tags)
         /\ \A unit \in Units :
              (~Available("distribution") /\ distribution(name, value, tags, unit))
              => CarriesPayload(name, value, tags)]_vars

\* The step made exactly one emission: to Sentry.metrics when the shape is
\* available, to the breadcrumbs otherwise.
OneEmission(shape) ==
    IF Available(shape)
    THEN /\ Len(nativeCalls') = Len(nativeCalls) + 1
         /\ nativeCalls'[Len(nativeCalls')].shape = shape
         /\ SubSeq(nativeCalls', 1, Len(nativeCalls)) = nativeCalls
         /\ breadcrumbs' = breadcrumbs
    ELSE /\ Len(breadcrumbs') = Len(breadcrumbs) + 1
         /\ breadcrumbs'[Len(breadcrumbs')].category = "metric"
         /\ SubSeq(breadcrumbs', 1, Len(breadcrumbs)) = breadcrumbs
         /\ nativeCalls' = nativeCalls

\* C28: each call of increment, gauge or distribution makes exactly one
\* emission, to one sink: the Sentry.metrics function of the same shape when
\* that function is available, a breadcrumb otherwise; never both, never
\* neither, and the availability of one shape does not route another.
OneEmissionToOneSink ==
    [][\A name \in MetricNames, value \in MetricValues, tags \in TagSets :
         /\ increment(name, value, tags) => OneEmission("increment")
         /\ gauge(name, value, tags) => OneEmission("gauge")
         /\ \A unit \in Units :
              distribution(name, value, tags, unit) => OneEmission("distribution")]_vars

\* C28 witness: in a build with Sentry.metrics.increment only, an increment
\* went to Sentry.metrics and a gauge to the breadcrumbs.
OneEmissionWitness ==
    /\ nativeMetrics = {"increment"}
    /\ Len(nativeCalls) = 1 /\ nativeCalls[1].shape = "increment"
    /\ Len(breadcrumbs) = 1 /\ breadcrumbs[1].data["type"] = Str("gauge")

====
